---- MODULE Spec2Model ----
(***************************************************************************)
(* Model of the Luna chatbot lead-capture flow (js/spotlight.js, class     *)
(* LunaChatbot) and of its e-mail delivery with retry and local backup.    *)
(*                                                                         *)
(* Text is a sequence of one-character strings, so that trim, toLowerCase, *)
(* includes and the e-mail pattern are computed on the characters.         *)
(* The JavaScript event loop is modelled by one action per task: a user    *)
(* submission, the 1 s timer callback of sendMessage, the settlement of a  *)
(* pending send and the end of a backoff wait.  Code between two           *)
(* suspension points runs in one step.                                     *)
(*                                                                         *)
(* The page's other scripts have their own variables and specifications:   *)
(* the rate limiter of js/security-manager.js (SpecLimiter), and           *)
(* ComponentLoader (SpecLoader) and ScrollAnimations (SpecScroll) of       *)
(* js/scroll-animations.js.  No code of the chatbot calls them, so their   *)
(* variables keep their initial values in the chatbot's specifications.    *)
(***************************************************************************)
EXTENDS Integers, Sequences, FiniteSets, TLC

\* ------------------------------------------------------------------ bounds
MaxPending == 1   \* sendMessage timers that may be waiting at once
MaxCycles  == 2   \* delivery cycles that may be in flight at once
MaxClock   == 1   \* values new Date() may take: 1..MaxClock
MaxMax     == 4   \* largest maxRetries of a direct sendEmailWithRetry call
MaxDirect  == 1   \* direct sendEmailWithRetry calls that may be in flight at once
MaxNow      == 2  \* values Date.now() takes for the rate limiter: 0..MaxNow
MaxAttempts == 2  \* largest maxAttempts passed to createRateLimiter
MaxWindow   == 2  \* largest windowMs passed to createRateLimiter
MaxLoads    == 2  \* loadComponent calls that may await their fetch at once
MaxTimers   == 2  \* animateElement timers that may be waiting at once
MaxEntries  == 2  \* entries one IntersectionObserver callback may be passed

\* --------------------------------------------------------- program constants
DefaultMaxRetries == 3      \* handleFlow: sendEmailWithRetry(this.leadData, 3)
BackoffBaseMs     == 1000   \* Math.pow(2, attempt - 1) * 1000
MinNameLength     == 3      \* cleanInput.length < 3
MsPerSecond       == 1000   \* retryAfter: Math.ceil(... / 1000)

\* ------------------------------------------------------------------- text
UpperChars == <<"A","B","C","D","E","F","G","H","I","J","K","L","M",
                "N","O","P","Q","R","S","T","U","V","W","X","Y","Z">>
LowerChars == <<"a","b","c","d","e","f","g","h","i","j","k","l","m",
                "n","o","p","q","r","s","t","u","v","w","x","y","z">>

IsSpace(c) == c = " "

LowerChar(c) ==
    IF \E i \in 1..Len(UpperChars) : UpperChars[i] = c
    THEN LowerChars[CHOOSE i \in 1..Len(UpperChars) : UpperChars[i] = c]
    ELSE c

toLowerCase(s) == [i \in 1..Len(s) |-> LowerChar(s[i])]

RECURSIVE trimStart(_)
trimStart(s) == IF s # <<>> /\ IsSpace(Head(s)) THEN trimStart(Tail(s)) ELSE s

RECURSIVE trimEnd(_)
trimEnd(s) ==
    IF s # <<>> /\ IsSpace(s[Len(s)]) THEN trimEnd(SubSeq(s, 1, Len(s) - 1)) ELSE s

trim(s) == trimEnd(trimStart(s))

includes(s, t) == \E i \in 0..(Len(s) - Len(t)) : SubSeq(s, i + 1, i + Len(t)) = t

\* Variant: case 'EMAIL' accepts any text that is not empty.
emailRegexTest_AnyText(s) == s # <<>>

\* /^[^\s@]+@[^\s@]+\.[^\s@]+$/ : one "@", not first; a "." after it that is
\* neither next to the "@" nor last; no white space anywhere.
emailRegexTest(s) ==
    \E i \in 1..Len(s) : \E j \in 1..Len(s) :
        /\ s[i] = "@"
        /\ s[j] = "."
        /\ 1 < i
        /\ i + 1 < j
        /\ j < Len(s)
        /\ \A k \in 1..Len(s) : k # i => (~IsSpace(s[k]) /\ s[k] # "@")

\* Variant: case 'NAME' accepts any text.
nameTooShort_Never(s) == FALSE

\* case 'NAME': if (cleanInput.length < 3) return ...
nameTooShort(s) == Len(s) < MinNameLength

\* ------------------------------------------------------------ checkIntents
triggers == {
    <<"d","ú","v","i","d","a">>, <<"d","u","v","i","d","a">>,
    <<"a","j","u","d","a">>, <<"s","u","p","o","r","t","e">>,
    <<"e","r","r","o">>, <<"p","r","o","b","l","e","m","a">>,
    <<"f","e","c","h","a","r">>, <<"c","o","n","t","r","a","t","a","r">>,
    <<"c","o","m","p","r","a","r">>, <<"p","r","e","ç","o">>,
    <<"p","r","e","c","o">>, <<"v","a","l","o","r">>,
    <<"o","r","ç","a","m","e","n","t","o">>,
    <<"o","r","c","a","m","e","n","t","o">>,
    <<"w","h","a","t","s","a","p","p">>, <<"z","a","p">>,
    <<"q","u","e","r","o">> }

greetings == { <<"o","l","á">>, <<"o","i">>, <<"b","o","m">> }

hasTrigger(message)  == \E t \in triggers  : includes(toLowerCase(message), t)

\* Variant: the greeting words are looked for in the text as typed.
hasGreeting_AsTyped(message) == \E g \in greetings : includes(message, g)

hasGreeting(message) == \E g \in greetings : includes(toLowerCase(message), g)

\* ------------------------------------------------------------- user inputs
\* What the user may leave in the chat input when sendMessage runs.
ZapMail == <<"z","a","p","@","b",".","c","o">>   \* trigger word inside an e-mail
Oi      == <<" ","o","i"," ">>                   \* greeting, 2 characters once trimmed
Blank   == <<" ">>

Sim     == <<"S","i","m">>                       \* the word the opt-in prompt asks for
OiQuero == <<"O","i"," ","Q","U","E","R","O">>   \* greeting and trigger word, upper case
OiCaps  == <<"O","I">>                           \* greeting in upper case
Markup  == <<"<","b",">","@","z","a","p",".","c","o">>   \* an address that holds a tag

\* Texts of a session with several conversations.
RepeatInputs == {ZapMail, Blank}

\* Texts of a first conversation.
Inputs == {ZapMail, Oi, Blank}

\* Texts sent while the state is IDLE and nothing waits.
IdleInputs == {ZapMail, OiCaps, Sim, OiQuero, Blank}

\* Texts of a first conversation typed with a tag.
MarkupInputs == {Markup, Blank}

\* ------------------------------------------------- generateSecureProtocol
Digits36 == <<"0","1","2","3","4","5","6","7","8","9","a","b","c","d","e","f","g","h",
              "i","j","k","l","m","n","o","p","q","r","s","t","u","v","w","x","y","z">>

\* Number.prototype.toString(36) of a natural number.
RECURSIVE toString36(_)
toString36(n) ==
    IF n < 36 THEN <<Digits36[n + 1]>>
    ELSE Append(toString36(n \div 36), Digits36[(n % 36) + 1])

\* The upper-case letter of each lower-case letter.
UpperOf == [c \in {LowerChars[i] : i \in 1..Len(LowerChars)} |->
               UpperChars[CHOOSE i \in 1..Len(LowerChars) : LowerChars[i] = c]]

UpperChar(c) == IF c \in DOMAIN UpperOf THEN UpperOf[c] ELSE c

toUpperCase(s) == [i \in 1..Len(s) |-> UpperChar(s[i])]

\* s.split(sep)[0]
RECURSIVE firstPiece(_, _)
firstPiece(s, sep) ==
    IF s = <<>> \/ Head(s) = sep THEN <<>> ELSE <<Head(s)>> \o firstPiece(Tail(s), sep)

\* s.substring(from, to), 0 <= from <= to
substring(s, from, to) == SubSeq(s, from + 1, IF to < Len(s) THEN to ELSE Len(s))

\* Math.random().toString(36): "0" for 0, else "0." and the base-36 digits
\* of the fraction.
randomToString36(digits) == IF digits = <<>> THEN <<"0">> ELSE <<"0", ".">> \o digits

\* The host's sources of identifiers: whether window.crypto.randomUUID
\* exists, the UUID it gives, the millisecond clock and the digits of
\* Math.random().
EntropySamples == {
    [crypto |-> TRUE,
     uuid |-> <<"a","3","f","8","b","7","c","2","-","9","d","1","e","-","4","f","6","0","-",
                "8","a","2","b","-","0","c","5","d","7","e","9","f","1","a","3","b">>,
     now |-> 0, random |-> <<>>],
    [crypto |-> FALSE, uuid |-> <<>>, now |-> 2147483647,
     random |-> <<"4","f","z","k","q","1">>],
    [crypto |-> FALSE, uuid |-> <<>>, now |-> 46656, random |-> <<>>] }

FirstEntropy == CHOOSE e \in EntropySamples : e.crypto

ProtocolPrefix == <<"G","L","X","-">>

\* Variant: the identifier is used as it comes, without toUpperCase.
generateSecureProtocol_AsGiven(e) ==
    IF e.crypto
    THEN ProtocolPrefix \o firstPiece(e.uuid, "-")
    ELSE ProtocolPrefix \o toString36(e.now) \o <<"-">>
           \o substring(randomToString36(e.random), 2, 6)

\* generateSecureProtocol with the host sources e.
generateSecureProtocol(e) ==
    IF e.crypto
    THEN ProtocolPrefix \o toUpperCase(firstPiece(e.uuid, "-"))
    ELSE ProtocolPrefix \o toUpperCase(toString36(e.now)) \o <<"-">>
           \o toUpperCase(substring(randomToString36(e.random), 2, 6))

\* ------------------------------------------------------ encodeURIComponent
RangeOf(s) == {s[i] : i \in 1..Len(s)}

\* Characters encodeURIComponent leaves as they are.
Unreserved ==
    RangeOf(UpperChars) \cup RangeOf(LowerChars) \cup RangeOf(Digits36)
        \cup {"-", "_", ".", "!", "~", "*", "'", "(", ")"}

\* %XX of the other ASCII characters a text of this model may hold.
PercentCode == [c \in {" ", "\"", "&", "/", "<", "=", ">", "@"} |->
    CASE c = " "  -> <<"%","2","0">>
      [] c = "\"" -> <<"%","2","2">>
      [] c = "&"  -> <<"%","2","6">>
      [] c = "/"  -> <<"%","2","F">>
      [] c = "<"  -> <<"%","3","C">>
      [] c = "="  -> <<"%","3","D">>
      [] c = ">"  -> <<"%","3","E">>
      [] c = "@"  -> <<"%","4","0">>]

\* One character as encodeURIComponent writes it.
EncodedChar == [c \in Unreserved \cup DOMAIN PercentCode |->
                   IF c \in Unreserved THEN <<c>> ELSE PercentCode[c]]

\* encodeURIComponent(s), one piece per character of s: the character or
\* its %XX.
encodeURIComponent(s) ==
    [i \in 1..Len(s) |-> EncodedChar[s[i]]]

\* ------------------------------------------------------------- lead record
\* this.leadData is an object: a function from the keys set so far.
EmptyLead == [k \in {} |-> <<>>]

SetField(ld, k, v) == [f \in (DOMAIN ld) \cup {k} |-> IF f = k THEN v ELSE ld[f]]

LeadFields == {"nome", "cargo", "email", "desafio", "mensagem"}

\* `${this.leadData.nome}` in a template: the text, or "undefined".
Undefined == <<"u","n","d","e","f","i","n","e","d">>

Field(ld, k) == IF k \in DOMAIN ld THEN ld[k] ELSE Undefined

\* waLink: the parts of waText that vary, as encodeURIComponent leaves them
\* in the href.
WaLink(ld, protocol) ==
    [nome     |-> encodeURIComponent(Field(ld, "nome")),
     cargo    |-> encodeURIComponent(Field(ld, "cargo")),
     desafio  |-> encodeURIComponent(Field(ld, "desafio")),
     protocol |-> encodeURIComponent(protocol)]

\* Second argument of window.trackEvent('lead_submitted', ...).
LeadSubmitted(ld, protocol) ==
    [protocol |-> protocol, source |-> "chatbot", challenge |-> Field(ld, "desafio")]

\* ------------------------------------------------------------- environment
\* window.sendContactEmail at a call: missing, returns a promise, or throws.
Sends == {"absent", "pending", "throw"}

\* window.trackEvent at a call: missing, returns, or throws.
Hooks == {"absent", "ok", "throws"}

\* localStorage.setItem works or throws; the value of new Date().
Times == 1..MaxClock

CatchEnvs == [storage : {"ok", "throws"}, now : Times]

\* ------------------------------------------------------------------- state
VARIABLES
    flowState,   \* this.flowState
    leadData,    \* the object this.leadData refers to
    pending,     \* messages of sendMessage whose 1 s timer has not fired yet
    cycles,      \* sendEmailWithRetry calls in flight, oldest first
    backup,      \* localStorage['glx_lead_backup']: <<>> or <<record>>
    lastSent,    \* argument of the latest window.sendContactEmail call
    lastResp,    \* how the latest timer callback of sendMessage ended
    lastDone,    \* latest return of sendEmailWithRetry
    isOpen,      \* this.isOpen: the chat window is shown
    entropy      \* what crypto.randomUUID, Date.now and Math.random give next

\* js/security-manager.js
VARIABLES
    limiter,     \* createRateLimiter's closure: <<>> or <<[maxAttempts, windowMs]>>
    attempts,    \* the closure's Map attempts: key -> times of its allowed calls
    dateNow,     \* Date.now()
    granted,     \* history: granted[key][time], the calls allowed for key at time
    lastCheck    \* what the latest call of the limiter returned (and its key)

limiterVars == <<limiter, attempts, dateNow, granted, lastCheck>>

\* js/scroll-animations.js, class ComponentLoader
VARIABLES
    cache,             \* this.cache: componentPath -> html
    loadedComponents,  \* this.loadedComponents: selectors
    innerHTML,         \* innerHTML of the elements the selectors find
    loads,             \* loadComponent calls awaiting their fetch, oldest first
    fetched,           \* history: fetches of a path since clearCache that did not fail
    lastLoaded,        \* what the latest loadComponent call resolved to
    results            \* what loadComponents collects: per component <<>> or <<value>>

loaderVars == <<cache, loadedComponents, innerHTML, loads, fetched, lastLoaded, results>>

\* js/scroll-animations.js, class ScrollAnimations
VARIABLES
    observer,          \* this.observer: "null", or "observing" its elements
    observed,          \* the elements the IntersectionObserver observes
    animatedElements,  \* this.animatedElements
    timers,            \* elements whose animateElement timer has not fired yet
    classList,         \* the elements that carry options.animationClass
    animations         \* history: scrollAnimationComplete events per element
                       \* since init

scrollVars == <<observer, observed, animatedElements, timers, classList, animations>>

\* The variables of the page's other scripts.
pageVars == <<limiterVars, loaderVars, scrollVars>>

chatVars == <<flowState, leadData, pending, cycles, backup, lastSent, lastResp, lastDone,
              isOpen, entropy>>

vars == <<flowState, leadData, pending, cycles, backup, lastSent, lastResp, lastDone,
          isOpen, entropy, pageVars>>

FlowStates == {"IDLE", "NAME", "ROLE", "EMAIL", "DESAFIO", "DUVIDA"}

\* A call of sendEmailWithRetry(data, maxRetries) about to start.  alias:
\* data is the object this.leadData still refers to; otherwise snap holds
\* the object.  protocol: the constant the try block of the awaiting case
\* 'DUVIDA' holds (empty for a direct call).  accepted: what the object held
\* when sendEmailWithRetry was called.
NewCycle(caller, maxRetries, alias, snap, protocol) ==
    [pc |-> "start", attempt |-> 0, max |-> maxRetries, alias |-> alias,
     snap |-> snap, caller |-> caller, calls |-> 0, fails |-> 0,
     delays |-> <<>>, result |-> FALSE, protocol |-> protocol,
     accepted |-> IF alias THEN EmptyLead ELSE snap]

\* The object a cycle's parameter `data` refers to.
DataOf(cyc) == IF cyc.alias THEN leadData ELSE cyc.snap

Remove(seq, i) == SubSeq(seq, 1, i - 1) \o SubSeq(seq, i + 1, Len(seq))

\* What one timer callback did: the bot message it added (kind), the error
\* its catch branch logged, the event it passed to window.trackEvent, and
\* whether 'Failed to save to localStorage' was logged.  Of the message
\* assigned to innerHTML: html, the user's texts placed in it as they are;
\* link, the WhatsApp link (none: <<>>); shown, the protocol printed in it;
\* urgent, the "(URGENTE)" button.  payload: the data passed with the
\* event; generated: the calls of generateSecureProtocol.
Resp(kind, error, event, storageError) ==
    [kind |-> kind, error |-> error, event |-> event, storageError |-> storageError,
     html |-> <<>>, link |-> <<>>, shown |-> <<>>, urgent |-> FALSE, payload |-> <<>>,
     generated |-> 0]

Prompt(kind) == Resp(kind, "none", "none", FALSE)

\* Keys the rate limiter is called with.
Keys == {"a", "b"}

\* new Map()
NoAttempts == [key \in {} |-> <<>>]

\* Component files, and what a server may answer for one.
Paths  == {"header.html", "footer.html"}
Bodies == {"<nav>1</nav>", "<nav>2</nav>"}

\* Selectors: "#header" finds an element, "#none" finds nothing.
Selectors == {"#header", "#none"}
Present   == {"#header"}

\* new Map()
NoCache == [path \in {} |-> ""]

\* Elements with data-scroll-animate in the document, and one added later.
Elements == {"hero", "card"}
InDocument == {"hero"}

\* The constructors: LunaChatbot, SecurityManager, ComponentLoader,
\* ScrollAnimations.
Init ==
    /\ flowState = "IDLE"
    /\ leadData = EmptyLead
    /\ pending = <<>>
    /\ cycles = <<>>
    /\ backup = <<>>
    /\ lastSent = <<>>
    /\ lastResp = Prompt("none")
    /\ lastDone = <<>>
    /\ isOpen = FALSE
    /\ entropy = FirstEntropy
    /\ limiter = <<>>
    /\ attempts = NoAttempts
    /\ dateNow = 0
    /\ granted = [key \in Keys |-> [time \in 0..MaxNow |-> 0]]
    /\ lastCheck = <<>>
    /\ cache = NoCache
    /\ loadedComponents = {}
    /\ innerHTML = [selector \in Present |-> ""]
    /\ loads = <<>>
    /\ fetched = [path \in Paths |-> 0]
    /\ lastLoaded = <<>>
    /\ results = <<>>
    /\ observer = "null"
    /\ observed = {}
    /\ animatedElements = {}
    /\ timers = <<>>
    /\ classList = {}
    /\ animations = [element \in Elements |-> 0]

\* ------------------------------------------------------ sendEmailWithRetry
\* Variant: the wait doubles from 2 s.
backoffDelay_FromTwo(attempt) == (2 ^ attempt) * BackoffBaseMs

\* const delay = Math.pow(2, attempt - 1) * 1000
backoffDelay(attempt) == (2 ^ (attempt - 1)) * BackoffBaseMs

\* if (attempt < maxRetries) { wait } else { return false }
retryAfterFailure(attempt, maxRetries) == attempt < maxRetries

\* return true
AttemptSucceeded(cyc) == [cyc EXCEPT !.pc = "returned", !.result = TRUE]

\* Variant: the last failed attempt is reported as a success.
AttemptFailed_ReportsTrue(cyc) ==
    LET f == [cyc EXCEPT !.fails = @ + 1] IN
    IF retryAfterFailure(f.attempt, f.max)
    THEN [f EXCEPT !.pc = "backoff", !.delays = Append(@, backoffDelay(f.attempt))]
    ELSE [f EXCEPT !.pc = "returned", !.result = TRUE]

\* catch (error) { ... } of one attempt
AttemptFailed(cyc) ==
    LET f == [cyc EXCEPT !.fails = @ + 1] IN
    IF retryAfterFailure(f.attempt, f.max)
    THEN [f EXCEPT !.pc = "backoff", !.delays = Append(@, backoffDelay(f.attempt))]
    ELSE [f EXCEPT !.pc = "returned", !.result = FALSE]

\* One pass of for (attempt; attempt <= maxRetries; attempt++) up to the next
\* suspension.  A missing or throwing window.sendContactEmail raises inside
\* the try.
LoopStep(cyc, attempt, send) ==
    IF attempt <= cyc.max
    THEN LET called == [cyc EXCEPT !.attempt = attempt, !.calls = @ + 1] IN
         IF send = "pending"
         THEN [called EXCEPT !.pc = "sending"]
         ELSE AttemptFailed(called)
    ELSE [cyc EXCEPT !.attempt = attempt, !.pc = "returned", !.result = FALSE]

\* The pass from old to new entered the collaborator.
Called(old, new, send) == new.calls > old.calls /\ send # "absent"

DoneRecord(cyc) == [result |-> cyc.result, calls |-> cyc.calls, fails |-> cyc.fails,
                    delays |-> cyc.delays, max |-> cyc.max]

\* --------------------------------------------------------------- handleFlow
\* saveToLocalStorage: JSON.stringify({data: this.leadData, timestamp});
\* a throwing localStorage.setItem is caught and logged.
saveToLocalStorage(ld, env) ==
    IF env.storage = "ok" THEN <<[data |-> ld, timestamp |-> env.now]>> ELSE backup

\* this.flowState when the catch branch of case 'DUVIDA' returns; stateNow
\* is the value the try block left.
catchFlowState(stateNow) == stateNow

\* Variant: the record is discarded when case 'DUVIDA' returns.
finalLeadData_Discarded(ld) == EmptyLead

\* this.leadData when case 'DUVIDA' returns, on either branch.
finalLeadData(ld) == ld

\* catch (error) { saveToLocalStorage(); protocol; ...; return fallback }
\* after the try block generated its own protocol.
CatchBranch(error, event, payload, stateNow, ld, env) ==
    [flowState |-> catchFlowState(stateNow),
     leadData  |-> finalLeadData(ld),
     backup    |-> saveToLocalStorage(ld, env),
     resp      |-> [Resp("fallback", error, event, env.storage = "throws") EXCEPT
                       !.link = <<WaLink(ld, generateSecureProtocol(entropy))>>,
                       !.urgent = TRUE,
                       !.payload = payload,
                       !.generated = 2]]

\* The rest of case 'DUVIDA' once the send check is decided.  sent: "yes"
\* when sendEmailWithRetry returned true, "no" when it returned false,
\* "config" when window.sendContactEmail is missing.  fs and ld are
\* this.flowState and this.leadData at that moment, protocol the constant
\* of the try block.
DuvidaOutcome(sent, fs, ld, hook, env, protocol) ==
    CASE sent = "config" -> CatchBranch("Configuration Error", "none", <<>>, fs, ld, env)
      [] sent = "no"     -> CatchBranch("EmailJS failed after retries", "none", <<>>,
                                        fs, ld, env)
      [] OTHER ->
           IF hook = "throws"
           THEN CatchBranch("trackEvent", "lead_submitted",
                            <<LeadSubmitted(ld, protocol)>>, "IDLE", ld, env)
           ELSE [flowState |-> "IDLE",
                 leadData  |-> finalLeadData(ld),
                 backup    |-> backup,
                 resp      |-> [Resp("success", "none",
                                     IF hook = "ok" THEN "lead_submitted" ELSE "none",
                                     FALSE) EXCEPT
                                   !.link = <<WaLink(ld, protocol)>>,
                                   !.shown = protocol,
                                   !.payload = IF hook = "ok"
                                               THEN <<LeadSubmitted(ld, protocol)>>
                                               ELSE <<>>,
                                   !.generated = 1]]

\* The environment values the rest of case 'DUVIDA' reads.
OutcomeEnvs(sent) ==
    { he \in Hooks \X CatchEnvs :
        /\ (sent # "yes" => he[1] = "absent")
        /\ (sent = "yes" /\ he[1] # "throws"
              => he[2] = [storage |-> "ok", now |-> 1]) }

\* Cycle i (0: a new one) ran up to its next suspension or to its return,
\* giving cyc.  On return the caller resumes; ld is this.leadData then.
Advance(i, cyc, ld) ==
    LET others == IF i = 0 THEN cycles ELSE Remove(cycles, i) IN
    IF cyc.pc = "returned"
    THEN /\ cycles' = others
         /\ lastDone' = <<DoneRecord(cyc)>>
         /\ IF cyc.caller = "handleFlow"
            THEN \E he \in OutcomeEnvs(IF cyc.result THEN "yes" ELSE "no") :
                   LET o == DuvidaOutcome(IF cyc.result THEN "yes" ELSE "no",
                                          flowState, ld, he[1], he[2], cyc.protocol) IN
                   /\ flowState' = o.flowState
                   /\ leadData' = o.leadData
                   /\ backup' = o.backup
                   /\ lastResp' = o.resp
            ELSE /\ leadData' = ld
                 /\ UNCHANGED <<flowState, backup, lastResp>>
    ELSE /\ cycles' = (IF i = 0 THEN Append(cycles, cyc)
                                ELSE [cycles EXCEPT ![i] = cyc])
         /\ leadData' = ld
         /\ UNCHANGED <<lastDone, flowState, backup, lastResp>>

\* ------------------------------------------------------------- sendMessage
\* sendMessage up to setTimeout: blank input is ignored.
Submit(raw) ==
    /\ UNCHANGED <<isOpen, entropy, pageVars>>
    /\ Len(pending) < MaxPending
    /\ pending' = (IF trim(raw) = <<>> THEN pending ELSE Append(pending, trim(raw)))
    /\ UNCHANGED <<flowState, leadData, cycles, backup, lastSent, lastResp, lastDone>>

\* startLeadFlow: this.leadData = {} makes a new object; a cycle in flight
\* keeps the old one.
Detach(cyc) == IF cyc.alias THEN [cyc EXCEPT !.alias = FALSE, !.snap = leadData] ELSE cyc

\* Timer callback, flowState === 'IDLE': checkIntents, startLeadFlow.
ProcessIdle(hook) ==
    /\ UNCHANGED <<isOpen, entropy, pageVars>>
    /\ pending # <<>>
    /\ flowState = "IDLE"
    /\ pending' = Tail(pending)
    /\ IF hasTrigger(Head(pending))
       THEN /\ flowState' = "NAME"
            /\ leadData' = EmptyLead
            /\ cycles' = [i \in 1..Len(cycles) |-> Detach(cycles[i])]
            /\ lastResp' = (CASE hook = "throws" ->
                                   Resp("unhandled_rejection", "none", "chatbot_initiated", FALSE)
                              [] hook = "ok" ->
                                   Resp("name_prompt", "none", "chatbot_initiated", FALSE)
                              [] OTHER -> Prompt("name_prompt"))
       ELSE /\ hook = "absent"
            /\ lastResp' = Prompt(IF hasGreeting(Head(pending)) THEN "greeting" ELSE "optin")
            /\ UNCHANGED <<flowState, leadData, cycles>>
    /\ UNCHANGED <<backup, lastSent, lastDone>>

\* Timer callback, case 'NAME'.
ProcessName ==
    /\ UNCHANGED <<isOpen, entropy, pageVars>>
    /\ pending # <<>>
    /\ flowState = "NAME"
    /\ pending' = Tail(pending)
    /\ LET cleanInput == trim(Head(pending)) IN
       IF nameTooShort(cleanInput)
       THEN /\ lastResp' = Prompt("name_invalid")
            /\ UNCHANGED <<flowState, leadData>>
       ELSE /\ leadData' = SetField(leadData, "nome", cleanInput)
            /\ flowState' = "ROLE"
            /\ lastResp' = [Prompt("role_prompt") EXCEPT
                               !.html = <<firstPiece(cleanInput, " ")>>]
    /\ UNCHANGED <<cycles, backup, lastSent, lastDone>>

\* Timer callback, case 'ROLE'.
ProcessRole ==
    /\ UNCHANGED <<isOpen, entropy, pageVars>>
    /\ pending # <<>>
    /\ flowState = "ROLE"
    /\ pending' = Tail(pending)
    /\ leadData' = SetField(leadData, "cargo", trim(Head(pending)))
    /\ flowState' = "EMAIL"
    /\ lastResp' = Prompt("email_prompt")
    /\ UNCHANGED <<cycles, backup, lastSent, lastDone>>

\* Timer callback, case 'EMAIL'.
ProcessEmail ==
    /\ UNCHANGED <<isOpen, entropy, pageVars>>
    /\ pending # <<>>
    /\ flowState = "EMAIL"
    /\ pending' = Tail(pending)
    /\ LET cleanInput == trim(Head(pending)) IN
       IF ~emailRegexTest(cleanInput)
       THEN /\ lastResp' = Prompt("email_invalid")
            /\ UNCHANGED <<flowState, leadData>>
       ELSE /\ leadData' = SetField(leadData, "email", cleanInput)
            /\ flowState' = "DESAFIO"
            /\ lastResp' = Prompt("desafio_prompt")
    /\ UNCHANGED <<cycles, backup, lastSent, lastDone>>

\* Timer callback, case 'DESAFIO'.
ProcessDesafio ==
    /\ UNCHANGED <<isOpen, entropy, pageVars>>
    /\ pending # <<>>
    /\ flowState = "DESAFIO"
    /\ pending' = Tail(pending)
    /\ leadData' = SetField(leadData, "desafio", trim(Head(pending)))
    /\ flowState' = "DUVIDA"
    /\ lastResp' = Prompt("duvida_prompt")
    /\ UNCHANGED <<cycles, backup, lastSent, lastDone>>

\* Timer callback, case 'DUVIDA', up to the first suspension of the send.
ProcessDuvida(send) ==
    /\ UNCHANGED <<isOpen, entropy, pageVars>>
    /\ pending # <<>>
    /\ flowState = "DUVIDA"
    /\ pending' = Tail(pending)
    /\ LET ld == SetField(leadData, "mensagem", trim(Head(pending))) IN
       IF send # "absent"
       THEN /\ Len(cycles) < MaxCycles
            /\ LET start == [NewCycle("handleFlow", DefaultMaxRetries, TRUE, EmptyLead,
                                      generateSecureProtocol(entropy))
                               EXCEPT !.accepted = ld]
                   cyc == LoopStep(start, 1, send) IN
               /\ lastSent' = (IF Called(start, cyc, send) THEN <<ld>> ELSE lastSent)
               /\ Advance(0, cyc, ld)
       ELSE \E he \in OutcomeEnvs("config") :
              LET o == DuvidaOutcome("config", flowState, ld, he[1], he[2],
                                     generateSecureProtocol(entropy)) IN
              /\ flowState' = o.flowState
              /\ leadData' = o.leadData
              /\ backup' = o.backup
              /\ lastResp' = o.resp
              /\ UNCHANGED <<cycles, lastSent, lastDone>>

\* The promise of a pending window.sendContactEmail(data) settles.
Settle(i, resolved) ==
    /\ UNCHANGED <<isOpen, entropy, pageVars>>
    /\ i \in 1..Len(cycles)
    /\ cycles[i].pc = "sending"
    /\ Advance(i, IF resolved THEN AttemptSucceeded(cycles[i])
                              ELSE AttemptFailed(cycles[i]), leadData)
    /\ UNCHANGED <<pending, lastSent>>

\* The backoff timer fires: attempt++ and the next call.
BackoffDone(i, send) ==
    /\ UNCHANGED <<isOpen, entropy, pageVars>>
    /\ i \in 1..Len(cycles)
    /\ cycles[i].pc = "backoff"
    /\ LET cyc == LoopStep(cycles[i], cycles[i].attempt + 1, send) IN
       /\ lastSent' = (IF Called(cycles[i], cyc, send)
                       THEN <<DataOf(cycles[i])>> ELSE lastSent)
       /\ Advance(i, cyc, leadData)
    /\ UNCHANGED pending

\* A direct call sendEmailWithRetry(data, maxRetries).
CallDirect(data, maxRetries, send) ==
    /\ UNCHANGED <<isOpen, entropy, pageVars>>
    /\ Len(cycles) < MaxDirect
    /\ LET start == NewCycle("direct", maxRetries, FALSE, data, <<>>)
           cyc == LoopStep(start, 1, send) IN
       /\ lastSent' = (IF Called(start, cyc, send) THEN <<data>> ELSE lastSent)
       /\ Advance(0, cyc, leadData)
    /\ UNCHANGED pending

\* Variant: hiding the window also drops the deliveries in flight.
close_Cancels ==
    /\ isOpen' = FALSE
    /\ cycles' = <<>>
    /\ UNCHANGED <<flowState, leadData, pending, backup, lastSent, lastResp,
                   lastDone, entropy, pageVars>>

\* close: the window is hidden.
close ==
    /\ isOpen' = FALSE
    /\ UNCHANGED <<flowState, leadData, pending, cycles, backup, lastSent, lastResp,
                   lastDone, entropy, pageVars>>

\* toggle: the window is shown or, when it was shown, closed.
toggle ==
    IF isOpen
    THEN close
    ELSE /\ isOpen' = TRUE
         /\ UNCHANGED <<flowState, leadData, pending, cycles, backup, lastSent,
                        lastResp, lastDone, entropy, pageVars>>

\* The host's sources move on to other values.
Reseed(e) ==
    /\ entropy' = e
    /\ UNCHANGED <<flowState, leadData, pending, cycles, backup, lastSent, lastResp,
                   lastDone, isOpen, pageVars>>

\* A session: any number of conversations, deliveries overlapping.
Next ==
    \/ \E raw \in RepeatInputs : Submit(raw)
    \/ \E hook \in Hooks : ProcessIdle(hook)
    \/ ProcessName
    \/ ProcessRole
    \/ ProcessEmail
    \/ ProcessDesafio
    \/ \E send \in Sends : ProcessDuvida(send)
    \/ \E i \in 1..MaxCycles : \E r \in BOOLEAN : Settle(i, r)
    \/ \E i \in 1..MaxCycles : \E send \in Sends : BackoffDone(i, send)

Spec == Init /\ [][Next]_vars

\* The first conversation of a session, with every text: checkIntents runs
\* only while no flow has been started (the record is emptied by nothing
\* but startLeadFlow, and filled before the state is IDLE again).
NextFirst ==
    \/ \E raw \in Inputs : Submit(raw)
    \/ \E hook \in Hooks : leadData = EmptyLead /\ ProcessIdle(hook)
    \/ ProcessName
    \/ ProcessRole
    \/ ProcessEmail
    \/ ProcessDesafio
    \/ \E send \in Sends : ProcessDuvida(send)
    \/ \E i \in 1..MaxCycles : \E r \in BOOLEAN : Settle(i, r)
    \/ \E i \in 1..MaxCycles : \E send \in Sends : BackoffDone(i, send)

SpecFirst == Init /\ [][NextFirst]_vars

\* A session in which the user also answers the IDLE prompts.
NextIdle ==
    \/ \E raw \in (IF flowState = "IDLE" /\ pending = <<>> THEN IdleInputs
                                                            ELSE RepeatInputs) : Submit(raw)
    \/ \E hook \in Hooks : ProcessIdle(hook)
    \/ ProcessName
    \/ ProcessRole
    \/ ProcessEmail
    \/ ProcessDesafio
    \/ \E send \in Sends : ProcessDuvida(send)
    \/ \E i \in 1..MaxCycles : \E r \in BOOLEAN : Settle(i, r)
    \/ \E i \in 1..MaxCycles : \E send \in Sends : BackoffDone(i, send)

SpecIdle == Init /\ [][NextIdle]_vars

\* A first conversation during which the window is toggled and closed.
NextUi ==
    \/ toggle
    \/ close
    \/ \E raw \in RepeatInputs : Submit(raw)
    \/ \E hook \in Hooks : leadData = EmptyLead /\ ProcessIdle(hook)
    \/ ProcessName
    \/ ProcessRole
    \/ ProcessEmail
    \/ ProcessDesafio
    \/ \E send \in Sends : ProcessDuvida(send)
    \/ \E i \in 1..MaxCycles : \E r \in BOOLEAN : Settle(i, r)
    \/ \E i \in 1..MaxCycles : \E send \in Sends : BackoffDone(i, send)

SpecUi == Init /\ [][NextUi]_vars

\* A first conversation typed with a tag, on a host whose identifier
\* sources change while no delivery is in flight.
NextHost ==
    \/ \E e \in EntropySamples : cycles = <<>> /\ Reseed(e)
    \/ \E raw \in MarkupInputs : Submit(raw)
    \/ \E hook \in Hooks : leadData = EmptyLead /\ ProcessIdle(hook)
    \/ ProcessName
    \/ ProcessRole
    \/ ProcessEmail
    \/ ProcessDesafio
    \/ \E send \in Sends : ProcessDuvida(send)
    \/ \E i \in 1..MaxCycles : \E r \in BOOLEAN : Settle(i, r)
    \/ \E i \in 1..MaxCycles : \E send \in Sends : BackoffDone(i, send)

SpecHost == Init /\ [][NextHost]_vars

\* Records handed to a direct call of sendEmailWithRetry.
SampleLeads == {
    [nome |-> ZapMail, cargo |-> trim(Oi), email |-> ZapMail,
     desafio |-> ZapMail, mensagem |-> trim(Oi)],
    EmptyLead }

\* sendEmailWithRetry called on its own, with every maxRetries.
NextRetry ==
    \/ \E data \in SampleLeads : \E m \in 0..MaxMax : \E send \in Sends :
           CallDirect(data, m, send)
    \/ \E i \in 1..MaxCycles : \E r \in BOOLEAN : Settle(i, r)
    \/ \E i \in 1..MaxCycles : \E send \in Sends : BackoffDone(i, send)

SpecRetry == Init /\ [][NextRetry]_vars

TypeOK ==
    /\ flowState \in FlowStates
    /\ DOMAIN leadData \subseteq LeadFields
    /\ Len(pending) <= MaxPending
    /\ Len(cycles) <= MaxCycles
    /\ \A i \in 1..Len(cycles) : cycles[i].pc \in {"sending", "backoff"}
    /\ Len(backup) <= 1
    /\ isOpen \in BOOLEAN
    /\ entropy \in EntropySamples
    /\ Len(limiter) <= 1
    /\ DOMAIN attempts \subseteq Keys
    /\ dateNow \in 0..MaxNow
    /\ Len(lastCheck) <= 1
    /\ DOMAIN cache \subseteq Paths
    /\ loadedComponents \subseteq Selectors
    /\ Len(loads) <= MaxLoads
    /\ Len(lastLoaded) <= 1
    /\ Len(results) \in {0, 2}
    /\ observer \in {"null", "observing"}
    /\ observed \subseteq Elements
    /\ animatedElements \subseteq Elements
    /\ Len(timers) <= MaxTimers
    /\ classList \subseteq Elements

\* ------------------------------------------- SecurityManager: rate limiter
\* Math.ceil(a / b) for b > 0.
Ceil(a, b) == -((-a) \div b)

\* attempts.get(key) || []
userAttempts(key) == IF key \in DOMAIN attempts THEN attempts[key] ELSE <<>>

\* Variant: a call windowMs ago still counts.
recentAttempts_Inclusive(key, windowMs) ==
    SelectSeq(userAttempts(key), LAMBDA time : dateNow - time <= windowMs)

\* userAttempts.filter(time => now - time < windowMs)
recentAttempts(key, windowMs) ==
    SelectSeq(userAttempts(key), LAMBDA time : dateNow - time < windowMs)

\* retryAfter: a number of seconds, or NaN (recentAttempts[0] is undefined
\* when maxAttempts is 0).
retryAfter(recent, windowMs) ==
    IF recent = <<>>
    THEN [nan |-> TRUE, seconds |-> 0]
    ELSE [nan |-> FALSE, seconds |-> Ceil(recent[1] + windowMs - dateNow, MsPerSecond)]

\* createRateLimiter(maxAttempts, windowMs): a limiter with an empty Map.
createRateLimiter(maxAttempts, windowMs) ==
    /\ limiter = <<>>
    /\ limiter' = <<[maxAttempts |-> maxAttempts, windowMs |-> windowMs]>>
    /\ attempts' = NoAttempts
    /\ UNCHANGED <<dateNow, granted, lastCheck>>
    /\ UNCHANGED <<chatVars, loaderVars, scrollVars>>

\* A call (key) => {...} of the limiter.
rateLimiter(key) ==
    /\ limiter # <<>>
    /\ LET recent == recentAttempts(key, limiter[1].windowMs) IN
       IF Len(recent) >= limiter[1].maxAttempts
       THEN /\ lastCheck' = <<[key |-> key, allowed |-> FALSE,
                               retryAfter |-> <<retryAfter(recent, limiter[1].windowMs)>>]>>
            /\ UNCHANGED <<attempts, granted>>
       ELSE /\ attempts' = [k \in DOMAIN attempts \cup {key} |->
                               IF k = key THEN Append(recent, dateNow) ELSE attempts[k]]
            /\ lastCheck' = <<[key |-> key, allowed |-> TRUE, retryAfter |-> <<>>]>>
            /\ granted' = [granted EXCEPT ![key][dateNow] = @ + 1]
    /\ UNCHANGED <<limiter, dateNow>>
    /\ UNCHANGED <<chatVars, loaderVars, scrollVars>>

\* Time passes.
Tick ==
    /\ dateNow < MaxNow
    /\ dateNow' = dateNow + 1
    /\ UNCHANGED <<limiter, attempts, granted, lastCheck>>
    /\ UNCHANGED <<chatVars, loaderVars, scrollVars>>

\* A limiter made with any arguments and called for two keys as time passes.
NextLimiter ==
    \/ \E maxAttempts \in 0..MaxAttempts : \E windowMs \in 1..MaxWindow :
          createRateLimiter(maxAttempts, windowMs)
    \/ \E key \in Keys : rateLimiter(key)
    \/ Tick

SpecLimiter == Init /\ [][NextLimiter]_vars

\* --------------------------------------------------------- ComponentLoader
\* The error box the catch branch of loadComponent injects.
ErrorBox == "<div>Erro ao carregar componente</div>"

\* The loader's fields and the page, as one value, for the code that runs
\* before the first await.
LoaderNow ==
    [cache |-> cache, loadedComponents |-> loadedComponents, innerHTML |-> innerHTML,
     loads |-> loads, fetched |-> fetched]

\* targetElement.innerHTML = html; this.loadedComponents.add(selector)
Inject(st, selector, html) ==
    [st EXCEPT !.innerHTML = [@ EXCEPT ![selector] = html],
               !.loadedComponents = @ \cup {selector}]

\* !this.cache.has(componentPath)
MissesCache(st, path) == path \notin DOMAIN st.cache

\* loadComponent(selector, componentPath) up to its first await or its
\* return.  slot: the place of the call in loadComponents (0: called
\* directly).  value: <<>> while the fetch is awaited.
StartLoad(st, selector, path, slot) ==
    IF selector \notin Present
    THEN [st |-> st, value |-> <<FALSE>>]
    ELSE IF MissesCache(st, path)
         THEN [st |-> [st EXCEPT
                         !.loads = Append(@, [selector |-> selector, path |-> path,
                                              slot |-> slot]),
                         !.fetched = [@ EXCEPT ![path] = @ + 1]],
               value |-> <<>>]
         ELSE [st |-> Inject(st, selector, st.cache[path]), value |-> <<TRUE>>]

\* The fields and the page become st.
LoaderBecomes(st) ==
    /\ cache' = st.cache
    /\ loadedComponents' = st.loadedComponents
    /\ innerHTML' = st.innerHTML
    /\ loads' = st.loads
    /\ fetched' = st.fetched

\* Fetches the calls of a list would start.
RoomFor(n) == Len(loads) + n <= MaxLoads

\* await loadComponent(selector, componentPath), called directly.
loadComponent(selector, path) ==
    /\ RoomFor(1)
    /\ LET r == StartLoad(LoaderNow, selector, path, 0) IN
       /\ LoaderBecomes(r.st)
       /\ lastLoaded' = (IF r.value = <<>> THEN lastLoaded
                         ELSE <<[selector |-> selector, path |-> path,
                                 value |-> r.value[1]]>>)
    /\ UNCHANGED results
    /\ UNCHANGED <<chatVars, limiterVars, scrollVars>>

\* loadComponents([first, second]): both loadComponent calls run to their
\* first await before Promise.allSettled is awaited.
loadComponents(first, second) ==
    /\ RoomFor(2)
    /\ \A i \in 1..Len(loads) : loads[i].slot = 0
    /\ LET r1 == StartLoad(LoaderNow, first.selector, first.path, 1)
           r2 == StartLoad(r1.st, second.selector, second.path, 2) IN
       /\ LoaderBecomes(r2.st)
       /\ results' = <<r1.value, r2.value>>
    /\ UNCHANGED lastLoaded
    /\ UNCHANGED <<chatVars, limiterVars, scrollVars>>

\* What the awaited fetch(componentPath) and response.text() give: a body,
\* or a failure (fetch rejects, !response.ok, text() rejects).
FetchOutcomes == [ok : {TRUE}, body : Bodies] \cup [ok : {FALSE}, body : {""}]

\* The fetch a loadComponent call awaits settles, and the call runs to its
\* return.
FetchSettled(i, outcome) ==
    /\ i \in 1..Len(loads)
    /\ LET call == loads[i]
           value == outcome.ok IN
       /\ loads' = Remove(loads, i)
       /\ IF outcome.ok
          THEN /\ cache' = [path \in DOMAIN cache \cup {call.path} |->
                               IF path = call.path THEN outcome.body ELSE cache[path]]
               /\ innerHTML' = [innerHTML EXCEPT ![call.selector] = outcome.body]
               /\ loadedComponents' = loadedComponents \cup {call.selector}
               /\ UNCHANGED fetched
          ELSE /\ innerHTML' = [innerHTML EXCEPT ![call.selector] = ErrorBox]
               /\ fetched' = [fetched EXCEPT ![call.path] = IF @ > 0 THEN @ - 1 ELSE 0]
               /\ UNCHANGED <<cache, loadedComponents>>
       /\ IF call.slot = 0
          THEN /\ lastLoaded' = <<[selector |-> call.selector, path |-> call.path,
                                   value |-> value]>>
               /\ UNCHANGED results
          ELSE /\ results' = [results EXCEPT ![call.slot] = <<value>>]
               /\ UNCHANGED lastLoaded
    /\ UNCHANGED <<chatVars, limiterVars, scrollVars>>

\* clearCache
clearCache ==
    /\ cache' = NoCache
    /\ loadedComponents' = {}
    /\ fetched' = [path \in Paths |-> 0]
    /\ UNCHANGED <<innerHTML, loads, lastLoaded, results>>
    /\ UNCHANGED <<chatVars, limiterVars, scrollVars>>

Components == [selector : Selectors, path : Paths]

\* Loads of two component files into the page, one by one and in pairs.
NextLoader ==
    \/ \E selector \in Selectors : \E path \in Paths : loadComponent(selector, path)
    \/ \E first \in Components : \E second \in Components : loadComponents(first, second)
    \/ \E i \in 1..MaxLoads : \E outcome \in FetchOutcomes : FetchSettled(i, outcome)
    \/ clearCache

SpecLoader == Init /\ [][NextLoader]_vars

\* -------------------------------------------------------- ScrollAnimations
\* init(): with prefers-reduced-motion nothing is set up; otherwise
\* setupObserver and observeElements.
init(prefersReducedMotion) ==
    /\ observer = "null"
    /\ IF prefersReducedMotion
       THEN UNCHANGED <<observer, observed, animations>>
       ELSE /\ observer' = "observing"
            /\ observed' = InDocument
            /\ animations' = [element \in Elements |-> 0]
    /\ UNCHANGED <<animatedElements, timers, classList>>
    /\ UNCHANGED <<chatVars, limiterVars, loaderVars>>

\* The entries of one callback, handled in their order: animateElement sets
\* a timer for each target that intersects and is not in animatedElements.
RECURSIVE forEachEntry(_, _)
forEachEntry(entries, waiting) ==
    IF entries = <<>> THEN waiting
    ELSE forEachEntry(Tail(entries),
                      IF Head(entries).isIntersecting
                            /\ Head(entries).target \notin animatedElements
                      THEN Append(waiting, Head(entries).target)
                      ELSE waiting)

\* The IntersectionObserver calls back with entries of observed elements.
Intersect(entries) ==
    /\ observer = "observing"
    /\ \A i \in 1..Len(entries) : entries[i].target \in observed
    /\ Len(forEachEntry(entries, timers)) <= MaxTimers
    /\ timers' = forEachEntry(entries, timers)
    /\ UNCHANGED <<observer, observed, animatedElements, classList, animations>>
    /\ UNCHANGED <<chatVars, limiterVars, loaderVars>>

\* The timer of animateElement fires, after the element's stagger delay.
TimerFires(i) ==
    /\ i \in 1..Len(timers)
    /\ timers' = Remove(timers, i)
    /\ classList' = classList \cup {timers[i]}
    /\ animatedElements' = animatedElements \cup {timers[i]}
    /\ animations' = [animations EXCEPT ![timers[i]] = @ + 1]
    /\ UNCHANGED <<observer, observed>>
    /\ UNCHANGED <<chatVars, limiterVars, loaderVars>>

\* addElement(element)
addElement(element) ==
    /\ observed' = (IF observer = "observing" /\ element \notin animatedElements
                    THEN observed \cup {element} ELSE observed)
    /\ UNCHANGED <<observer, animatedElements, timers, classList, animations>>
    /\ UNCHANGED <<chatVars, limiterVars, loaderVars>>

\* removeElement(element)
removeElement(element) ==
    /\ observed' = (IF observer = "observing" THEN observed \ {element} ELSE observed)
    /\ UNCHANGED <<observer, animatedElements, timers, classList, animations>>
    /\ UNCHANGED <<chatVars, limiterVars, loaderVars>>

\* destroy(): the timers already set are not cleared.
destroy ==
    /\ observer' = "null"
    /\ observed' = {}
    /\ animatedElements' = {}
    /\ UNCHANGED <<timers, classList, animations>>
    /\ UNCHANGED <<chatVars, limiterVars, loaderVars>>

Entries == [target : Elements, isIntersecting : BOOLEAN]

\* Callbacks of 1..MaxEntries entries.
EntryLists == UNION {[1..n -> Entries] : n \in 1..MaxEntries}

\* A page that is scrolled while elements are added and removed.
NextScroll ==
    \/ \E prefersReducedMotion \in BOOLEAN : init(prefersReducedMotion)
    \/ \E entries \in EntryLists : Intersect(entries)
    \/ \E i \in 1..MaxTimers : TimerFires(i)
    \/ \E element \in Elements : addElement(element)
    \/ \E element \in Elements : removeElement(element)
    \/ destroy

SpecScroll == Init /\ [][NextScroll]_vars

\* ------------------------------------------------------------------ claims
FinalKinds == {"success", "fallback"}

\* A send cycle returned in this step and case 'DUVIDA' ran to its end.
CycleReturned == Len(cycles') < Len(cycles)

\* Case 'DUVIDA' ran to its end without suspending.
DuvidaRanThrough ==
    /\ flowState = "DUVIDA"
    /\ Len(pending') < Len(pending)
    /\ Len(cycles') = Len(cycles)

C3_OneCycleInFlight == Len(cycles) <= 1

\* Shape of an accepted address, read off the characters: one "@" that is
\* not the first character, a "." further right that is not the last, and
\* no white space.
LooksLikeEmail(s) ==
    /\ Cardinality({i \in 1..Len(s) : s[i] = "@"}) = 1
    /\ s[1] # "@"
    /\ \E j \in 2..(Len(s) - 1) : s[j] = "." /\ \E i \in 1..(j - 2) : s[i] = "@"
    /\ \A i \in 1..Len(s) : s[i] # " "

\* C4: every record handed to window.sendContactEmail has all five fields,
\* none of them empty, a name of at least 3 characters and an e-mail of
\* the accepted shape.
C4_OnlyFullRecordsSent ==
    lastSent # <<>> =>
        /\ DOMAIN lastSent[1] = LeadFields
        /\ \A k \in LeadFields : lastSent[1][k] # <<>>
        /\ Len(lastSent[1].nome) >= 3
        /\ LooksLikeEmail(lastSent[1].email)

\* A record was sent whose role, challenge and message are the 2-character
\* text that case 'NAME' and case 'EMAIL' reject.
C4_Witness ==
    /\ lastSent # <<>>
    /\ DOMAIN lastSent[1] = LeadFields
    /\ lastSent[1].cargo = <<"o","i">>
    /\ lastSent[1].desafio = <<"o","i">>
    /\ lastSent[1].mensagem = <<"o","i">>

\* Sum of the waits of a returned delivery.
RECURSIVE SumSeq(_)
SumSeq(s) == IF s = <<>> THEN 0 ELSE Head(s) + SumSeq(Tail(s))

\* C5: a delivery that returns true after k failed attempts made k + 1
\* calls, k below max, and waited 2^(i-1) seconds after the i-th failure,
\* (2^k - 1) seconds in all.
C5_SuccessAfterKFailures ==
    (lastDone # <<>> /\ lastDone[1].result) =>
        LET k == lastDone[1].fails IN
        /\ k < lastDone[1].max
        /\ lastDone[1].calls = k + 1
        /\ lastDone[1].delays = [i \in 1..k |-> (2 ^ (i - 1)) * 1000]
        /\ SumSeq(lastDone[1].delays) = ((2 ^ k) - 1) * 1000

\* A delivery with max = 4 succeeded at its fourth attempt, after waits of
\* 1 s, 2 s and 4 s.
C5_Witness ==
    /\ lastDone # <<>>
    /\ lastDone[1].result
    /\ lastDone[1].max = 4
    /\ lastDone[1].fails = 3
    /\ lastDone[1].delays = <<1000, 2000, 4000>>

\* The delivery started by case 'DUVIDA' returned false in this step and the
\* catch branch ran.
Exhausted ==
    /\ CycleReturned
    /\ ~lastDone'[1].result
    /\ lastResp'.error = "EmailJS failed after retries"

\* The backup slot holds this record and a timestamp.
BackupHolds(slot, ld) == \E t \in Times : slot = <<[data |-> ld, timestamp |-> t]>>

\* C6: a delivery that fails at every attempt returns false after
\* exactly 3 calls, and the backup slot then holds the lead record and a
\* timestamp.
C6_ExhaustionAlwaysBackedUp ==
    [][ Exhausted =>
          /\ lastDone'[1].calls = DefaultMaxRetries
          /\ lastDone'[1].fails = DefaultMaxRetries
          /\ BackupHolds(backup', leadData) ]_vars

\* C7: a delivery with max = 3 that is reported failed has waited 1 s, 2 s
\* and 4 s, 7 s in all.
C7_WaitsOneTwoFour ==
    (lastDone # <<>> /\ ~lastDone[1].result /\ lastDone[1].max = 3)
        => lastDone[1].delays = <<1000, 2000, 4000>>

\* Where a delivery in flight stands: it is awaiting its attempt-th call or
\* the wait after it, with attempt within 1..max.
InFlightOK(cyc) ==
    /\ cyc.attempt \in 1..cyc.max
    /\ cyc.calls = cyc.attempt
    /\ cyc.pc = "sending" => cyc.fails = cyc.attempt - 1
    /\ cyc.pc = "backoff" => cyc.fails = cyc.attempt /\ cyc.attempt < cyc.max

\* C8: whatever the collaborator does and whatever max is, a delivery makes
\* at most max calls (none when max is 0) and returns a boolean, true only
\* if one of its calls succeeded; no other way out exists.
C8_ReturnsBooleanWithinMax ==
    /\ \A i \in 1..Len(cycles) : InFlightOK(cycles[i])
    /\ lastDone # <<>> =>
          /\ lastDone[1].result \in BOOLEAN
          /\ lastDone[1].calls <= lastDone[1].max
          /\ lastDone[1].result => lastDone[1].fails < lastDone[1].calls
          /\ ~lastDone[1].result => lastDone[1].fails = lastDone[1].calls
                                       /\ lastDone[1].calls = lastDone[1].max

\* A delivery with max = 4 returned false after 4 failed calls, and none
\* is in flight.
C8_Witness ==
    /\ lastDone # <<>>
    /\ ~lastDone[1].result
    /\ lastDone[1].max = 4
    /\ lastDone[1].fails = 4
    /\ cycles = <<>>

\* The timer callback of sendMessage runs on the text "oi".
RejectedText == <<"o", "i">>

CallbackOnRejectedText(state) ==
    /\ flowState = state
    /\ pending # <<>>
    /\ trim(Head(pending)) = RejectedText
    /\ pending' = Tail(pending)

\* C9: a 2-character text in state NAME, and a text without "@" in state
\* EMAIL, leave the state and the lead record as they were; only the
\* re-prompt is answered: no send, no backup, no tracked event.
C9_RejectedInputChangesNothing ==
    [][ /\ CallbackOnRejectedText("NAME") =>
              /\ lastResp' = Prompt("name_invalid")
              /\ UNCHANGED <<flowState, leadData, cycles, backup, lastSent, lastDone>>
        /\ CallbackOnRejectedText("EMAIL") =>
              /\ lastResp' = Prompt("email_invalid")
              /\ UNCHANGED <<flowState, leadData, cycles, backup, lastSent, lastDone>>
      ]_vars

\* The e-mail was refused: the state is EMAIL and the record holds name and
\* role only.
C9_Witness ==
    /\ lastResp = Prompt("email_invalid")
    /\ flowState = "EMAIL"
    /\ DOMAIN leadData = {"nome", "cargo"}
    /\ lastSent = <<>>
    /\ backup = <<>>

\* Case 'DUVIDA' found no window.sendContactEmail.
ConfigError ==
    /\ DuvidaRanThrough
    /\ lastResp'.error = "Configuration Error"

\* C10: without window.sendContactEmail the final step makes no
\* call, writes the record and a timestamp to the backup slot, answers with
\* the fallback and leaves the state where exhaustion leaves it.
C10_ConfigErrorAlwaysBackedUp ==
    [][ ConfigError =>
          /\ UNCHANGED <<cycles, lastSent, lastDone>>
          /\ lastResp'.kind = "fallback"
          /\ flowState' = flowState
          /\ BackupHolds(backup', leadData') ]_vars

\* Case 'DUVIDA' ran to its end in this step, at once or after its delivery.
FinalStepEnded == CycleReturned \/ DuvidaRanThrough

\* C11: the answer of the final step, success or fallback, carries a link
\* that holds the lead's name, role and challenge and a protocol; the
\* fallback also carries the urgency marker.
C11_FinalAnswerLinksLead ==
    lastResp.kind \in FinalKinds =>
        /\ Len(lastResp.link) = 1
        /\ lastResp.link[1].nome # encodeURIComponent(Undefined)
        /\ lastResp.link[1].cargo # encodeURIComponent(Undefined)
        /\ lastResp.link[1].desafio # encodeURIComponent(Undefined)
        /\ lastResp.link[1].protocol # <<>>
        /\ lastResp.kind = "fallback" => lastResp.urgent

\* C12: every timer callback of sendMessage ends with a bot message; none
\* ends in a rejection.
C12_EveryCallbackAnswers == lastResp.kind # "unhandled_rejection"

\* C13: the final step calls generateSecureProtocol once, whether it ends
\* with the success or with the fallback.
C13_OneProtocolPerFinalStep == lastResp.kind \in FinalKinds => lastResp.generated = 1

\* The text of an encoded protocol: encodeURIComponent leaves each of its
\* characters as it is.
Decoded(enc) == [i \in 1..Len(enc) |-> enc[i][1]]

\* The protocols the state shows: the constants of the waiting try blocks,
\* the one printed in and the one linked from the last answer, and the one
\* passed with lead_submitted.
ProtocolsInSight ==
    {cycles[i].protocol : i \in 1..Len(cycles)}
        \cup (IF lastResp.kind = "success" THEN {lastResp.shown} ELSE {})
        \cup {Decoded(lastResp.link[i].protocol) : i \in 1..Len(lastResp.link)}
        \cup {lastResp.payload[i].protocol : i \in 1..Len(lastResp.payload)}

\* "GLX-", then at least one character, none of them a lower-case letter.
IsProtocol(t) ==
    /\ Len(t) > 4
    /\ SubSeq(t, 1, 4) = <<"G", "L", "X", "-">>
    /\ \A i \in 5..Len(t) : t[i] \notin RangeOf(LowerChars)

\* C14: every protocol generateSecureProtocol gave, with crypto.randomUUID
\* and without it, is "GLX-" followed by a non-empty upper-case suffix.
C14_ProtocolIsTaggedUpperCase ==
    /\ \A i \in 1..Len(lastResp.link) :
          \A j \in 1..Len(lastResp.link[i].protocol) :
             Len(lastResp.link[i].protocol[j]) = 1
    /\ \A t \in ProtocolsInSight : IsProtocol(t)

\* The fallback links the protocol made without crypto.randomUUID from the
\* clock 46656 and Math.random() = 0, and a try block holds the one made
\* from the UUID.
C14_Witness ==
    /\ lastResp.kind = "fallback"
    /\ Len(lastResp.link) = 1
    /\ Decoded(lastResp.link[1].protocol) = <<"G","L","X","-","1","0","0","0","-">>
    /\ \E i \in 1..Len(cycles) :
          cycles[i].protocol = <<"G","L","X","-","A","3","F","8","B","7","C","2">>

\* The timer callback runs in state IDLE on a text that holds a trigger
\* word: "zap@b.co", or "Oi QUERO" with its greeting.
CallbackOnTriggerText ==
    /\ flowState = "IDLE"
    /\ pending # <<>>
    /\ Head(pending) \in {ZapMail, OiQuero}
    /\ pending' = Tail(pending)

\* C15: in state IDLE a text with a trigger word empties the lead record,
\* moves the state to NAME and is answered with the name prompt.
C15_TriggerStartsFlow ==
    [][ CallbackOnTriggerText =>
          /\ flowState' = "NAME"
          /\ leadData' = EmptyLead
          /\ lastResp'.kind = "name_prompt" ]_vars

\* The timer callback runs in state IDLE on this text, which holds no
\* trigger word.
CallbackOnPlainText(text) ==
    /\ flowState = "IDLE"
    /\ pending # <<>>
    /\ trim(Head(pending)) = text
    /\ pending' = Tail(pending)

\* C16: in state IDLE a text without a trigger word leaves the state and
\* the lead record as they were, starts no send, writes no backup and tracks
\* no event; "OI" is answered with the greeting and "Sim" with the opt-in
\* prompt.
C16_PlainTextOnlyAnswers ==
    [][ /\ CallbackOnPlainText(<<"O","I">>) =>
              /\ lastResp' = Prompt("greeting")
              /\ UNCHANGED <<flowState, leadData, cycles, backup, lastSent, lastDone>>
        /\ CallbackOnPlainText(Sim) =>
              /\ lastResp' = Prompt("optin")
              /\ UNCHANGED <<flowState, leadData, cycles, backup, lastSent, lastDone>>
      ]_vars

\* After a finished conversation "Sim" got the opt-in prompt: the state is
\* IDLE and the record of that conversation is still whole.
C16_Witness ==
    /\ lastResp = Prompt("optin")
    /\ flowState = "IDLE"
    /\ DOMAIN leadData = LeadFields
    /\ lastDone # <<>>

C18_TrackingOutsideControlFlow ==
    [][ (CycleReturned /\ lastDone'[1].result) =>
          /\ lastResp'.kind = "success"
          /\ backup' = backup
          /\ \A i \in 1..Len(lastResp'.payload) :
                lastResp'.payload[i].protocol = lastResp'.shown ]_vars

\* C19: the backup slot holds at most one record, and after every final
\* step that ended with the fallback it holds the lead record of that
\* conversation with a timestamp.
C19_BackupIsLastFailure ==
    [][ /\ Len(backup') <= 1
        /\ (FinalStepEnded /\ lastResp'.kind = "fallback") =>
              BackupHolds(backup', leadData') ]_vars

\* Characters that are markup when assigned through innerHTML.
HtmlSpecial == {"<", ">", "&", "\""}

\* C20: no text of the user placed in a bot message that addMessage assigns
\* through innerHTML holds a markup character.
C20_NoUserMarkupInHtml ==
    \A i \in 1..Len(lastResp.html) :
        \A j \in 1..Len(lastResp.html[i]) : lastResp.html[i][j] \notin HtmlSpecial

\* The order of the states, and the field each collection state stores.
FlowOrder ==
    {<<"IDLE", "NAME">>, <<"NAME", "ROLE">>, <<"ROLE", "EMAIL">>,
     <<"EMAIL", "DESAFIO">>, <<"DESAFIO", "DUVIDA">>, <<"DUVIDA", "IDLE">>}

FieldOf == [NAME |-> "nome", ROLE |-> "cargo", EMAIL |-> "email", DESAFIO |-> "desafio"]

\* C22: flowState changes only along IDLE, NAME, ROLE, EMAIL, DESAFIO,
\* DUVIDA, IDLE; a collection state is left only by the callback that
\* stores its own field; and sendEmailWithRetry is called only in state
\* DUVIDA.
C22_StateFollowsFixedOrder ==
    [][ /\ flowState' # flowState => <<flowState, flowState'>> \in FlowOrder
        /\ \A st \in DOMAIN FieldOf :
              (flowState = st /\ flowState' # st) =>
                  /\ pending # <<>>
                  /\ leadData' = SetField(leadData, FieldOf[st], trim(Head(pending)))
        /\ Len(cycles') > Len(cycles) => flowState = "DUVIDA" ]_vars

\* C23: a delivery starts only when no other is in flight and the last bot
\* message is not yet the answer of a final step: after that answer no
\* further text starts a send.
C23_OneCyclePerTraversal ==
    [][ Len(cycles') > Len(cycles) =>
          (cycles = <<>> /\ lastResp.kind \notin FinalKinds) ]_vars

\* C24: a returning delivery leaves a conversation that is collecting its
\* fields in its state, and its answer links name, role and challenge of
\* the record that delivery was passed.
C24_OldDeliveryLeavesNewFlow ==
    [][ CycleReturned =>
          /\ flowState \in DOMAIN FieldOf => flowState' = flowState
          /\ \E i \in 1..Len(cycles) :
                /\ cycles' = Remove(cycles, i)
                /\ Len(lastResp'.link) = 1
                /\ \A k \in {"nome", "cargo", "desafio"} :
                      lastResp'.link[1][k] = encodeURIComponent(Field(DataOf(cycles[i]), k))
      ]_vars

\* C25: every call a delivery makes after a wait passes the five values the
\* record held when the final message was accepted, and a step of the
\* delivery that does not return leaves the record as it is.
C25_EveryAttemptSendsAccepted ==
    [][ \A i \in 1..Len(cycles) :
          (/\ cycles[i].pc = "backoff"
           /\ Len(cycles') = Len(cycles)
           /\ cycles'[i].calls > cycles[i].calls) =>
              /\ lastSent' = <<cycles[i].accepted>>
              /\ leadData' = leadData ]_vars

\* C26: the backup slot changes only in a final step whose delivery failed
\* at all 3 attempts or found no window.sendContactEmail.
C26_BackupOnlyOnFailedDelivery ==
    [][ backup' # backup => (Exhausted \/ ConfigError) ]_vars

\* C28: in state IDLE the text "Sim", which the opt-in prompt asks for,
\* moves the state to NAME and is answered with the name prompt.
C28_AskedReplyStartsFlow ==
    [][ CallbackOnPlainText(Sim) =>
          /\ flowState' = "NAME"
          /\ lastResp'.kind = "name_prompt" ]_vars

\* The calls allowed for key in the windowMs up to time t.
GrantedWithin(key, t, windowMs) ==
    SumSeq([i \in 1..(t + 1) |-> IF t - (i - 1) < windowMs THEN granted[key][i - 1] ELSE 0])

\* C21: a delivery starts only in a step in which the rate limiter allowed
\* a call.
C21_DeliveryPassesLimiter ==
    [][ Len(cycles') > Len(cycles) =>
          (limiter # <<>> /\ granted' # granted) ]_vars

\* C27: in the windowMs up to any time at most maxAttempts calls were
\* allowed for a key; and a call for a key is denied exactly when
\* maxAttempts calls for that key were allowed in the windowMs before it,
\* whatever was denied and whatever was asked for the other key.
C27_DeniedExactlyWhenWindowFull ==
    /\ [](limiter # <<>> =>
            \A key \in Keys : \A t \in 0..dateNow :
               GrantedWithin(key, t, limiter[1].windowMs) <= limiter[1].maxAttempts)
    /\ [][ (limiter # <<>> /\ limiter' = limiter /\ dateNow' = dateNow) =>
             (lastCheck'[1].allowed <=>
                 GrantedWithin(lastCheck'[1].key, dateNow, limiter[1].windowMs)
                     < limiter[1].maxAttempts) ]_vars

\* Key "a" is denied while its window is full, after an older call of it
\* has left the window and a call for key "b" was allowed.
C27_Witness ==
    /\ limiter # <<>>
    /\ lastCheck = <<[key |-> "a", allowed |-> FALSE,
                      retryAfter |-> <<[nan |-> FALSE, seconds |-> 1]>>]>>
    /\ SumSeq([i \in 1..(dateNow + 1) |-> granted["a"][i - 1]]) > limiter[1].maxAttempts
    /\ limiter[1].maxAttempts > 0
    /\ \E t \in 0..dateNow : granted["b"][t] > 0

\* C29: between two clearCache calls each component path is fetched at most
\* once, not counting fetches that failed; and a loadComponent call for a
\* selector that finds no element resolved to false.
C29_OneFetchPerPath ==
    /\ \A path \in Paths : fetched[path] <= 1
    /\ \A i \in 1..Len(lastLoaded) :
          lastLoaded[i].selector \notin Present => ~lastLoaded[i].value

\* C30: while the observer is set up, since init the animation class was added and
\* scrollAnimationComplete dispatched at most once for each element.
C30_AnimatedAtMostOnce ==
    observer = "observing" => \A element \in Elements : animations[element] <= 1

====
